---- MODULE Spec2Model ----
(***************************************************************************)
(* Model of the futarigurashi static-site pipeline:                        *)
(*   - slugify (scripts/build-from-markdown.js, scripts/import-wp.js,      *)
(*     writer-server.js): the identifier normaliser;                       *)
(*   - main() of scripts/build-from-markdown.js: merge of content/*.md     *)
(*     into data/posts.json, sort, pagination;                             *)
(*   - main() of scripts/import-wp.js: slug de-duplication of imported     *)
(*     items, pagination of the main and the category listings;            *)
(*   - getPageNumbers: the windowed page-number control;                   *)
(*   - main() of scripts/import-wp.js: the category tree, its path slugs   *)
(*     and the category listings;                                          *)
(*   - scripts/rewrite-wp-links.js: postSlugFromWpPath and findStaticSlug, *)
(*     the resolver of historical permalinks, the rewrite of the hrefs and *)
(*     the redirect map;                                                   *)
(*   - writer-server.js: the handlers that save a draft, publish, revert   *)
(*     to draft and delete a post.                                         *)
(*                                                                         *)
(* Strings are sequences of one-unit tokens.  The alphabet has one token   *)
(* per character class the regular expressions of slugify distinguish.     *)
(***************************************************************************)
EXTENDS Integers, Sequences, FiniteSets, TLC

VARIABLES
    input, slug1, slug2, spc,                \* slugify applied once and twice
    postsJson, content, lastRun,             \* data/posts.json, content/*.md, the last script run
    readJson, builds,                        \* postsData as the last build read it, builds run
    list, kind, totalPages, pageNum, pages, pageNumbers, ppc,  \* one listing being paginated
    jsonKind, written,                       \* what data/posts.json holds, files written so far
    wpCategories, catPostsData,              \* wp:category elements and tagged posts of an export
    allCategoriesWithSlug, categoryDir,      \* category list, category/<slug>.html files
    catIdx, cpc,                             \* position of the category loop
    wpPath, staticSlugs,                     \* a historical path, the names of posts/*.html
    wpSlug, found, strategy, lpc,            \* candidate slug, resolved slug, matching strategy
    urlToRelative, hrefOut, redirectMap,     \* URL-to-location map, the href after the rewrite, redirect lines
    drafts, trail, response, requests        \* drafts/*.md, steps since the last request began, its answer, requests served

slugVars  == <<input, slug1, slug2, spc>>
buildVars == <<postsJson, content, lastRun, readJson, builds, jsonKind, written>>
catVars   == <<wpCategories, catPostsData, allCategoriesWithSlug, categoryDir, catIdx, cpc>>
linkVars  == <<wpPath, staticSlugs, wpSlug, found, strategy, lpc,
               urlToRelative, hrefOut, redirectMap>>
writerVars == <<drafts, trail, response, requests>>
pageVars  == <<list, kind, totalPages, pageNum, pages, pageNumbers, ppc>>
vars      == <<input, slug1, slug2, spc, postsJson, content, lastRun, readJson, builds,
               list, kind, totalPages, pageNum, pages, pageNumbers, ppc,
               jsonKind, written,
               wpCategories, catPostsData, allCategoriesWithSlug, categoryDir, catIdx, cpc,
               wpPath, staticSlugs, wpSlug, found, strategy, lpc,
               urlToRelative, hrefOut, redirectMap,
               drafts, trail, response, requests>>

(***************************************************************************)
(* Bounds of the model.                                                    *)
(***************************************************************************)
MaxTail == 3        \* free units after the run of word characters of a slugify input

MaxPosts == 101     \* records of a listing that is paginated

MaxPersisted == 2   \* records of data/posts.json before the first run

MaxItems == 2       \* published posts of a WXR export

MaxDay == 2         \* days of the calendar

MaxBuilds == 2      \* runs of the build in one behaviour

MaxRequests == 2    \* requests the writer server answers in one behaviour

(***************************************************************************)
(* Characters.                                                             *)
(***************************************************************************)
\* "a": an ASCII word character (\w); "-": the hyphen; " ": a white-space unit (\s);
\* "!": a unit slugify deletes (punctuation, any other script); "kana": a unit of
\* the Hiragana/Katakana/CJK ranges U+3040-309F, U+30A0-30FF, U+4E00-9FAF.
InputChars == {"a", "-", " ", "!", "kana"}

Digits == {"0", "1", "2", "3", "4", "5", "6", "7", "8", "9"}

IsSpace(c) == c = " "

IsWordChar(c) ==
    c \in ({"a", "b", "c", "e", "g", "o", "p", "r", "s", "t", "x", "y", "N", "O", "U", "_"} \cup Digits)

IsKana(c) == c = "kana"

\* the complement of the negated class [^\w\u3040-\u309f\u30a0-\u30ff\u4e00-\u9faf-]
SlugCharOk(c) == IsWordChar(c) \/ IsKana(c) \/ c = "-"

SlugMax == 80

FallbackSlug == <<"p", "o", "s", "t">>

(***************************************************************************)
(* String operations of JavaScript used by slugify.                        *)
(***************************************************************************)
\* the units of s at the positions of the set keep, in order
KeepAt(s, keep) ==
    LET kept == SelectSeq([i \in 1..Len(s) |-> i], LAMBDA i : i \in keep)
    IN  [k \in 1..Len(kept) |-> s[kept[k]]]

TrimStart(s) ==
    LET solid == {i \in 1..Len(s) : ~IsSpace(s[i])}
    IN  IF solid = {} THEN <<>>
        ELSE SubSeq(s, CHOOSE i \in solid : \A j \in solid : i <= j, Len(s))

TrimEnd(s) ==
    LET solid == {i \in 1..Len(s) : ~IsSpace(s[i])}
    IN  IF solid = {} THEN <<>>
        ELSE SubSeq(s, 1, CHOOSE i \in solid : \A j \in solid : i >= j)

\* String.prototype.trim
Trim(s) == TrimEnd(TrimStart(s))

\* .replace(/\s+/g, '-'): every maximal run of white space becomes one hyphen
SpacesToHyphen(s) ==
    LET heads == KeepAt(s, {i \in 1..Len(s) :
                                    ~(IsSpace(s[i]) /\ i > 1 /\ IsSpace(s[i - 1]))})
    IN  [k \in 1..Len(heads) |-> IF IsSpace(heads[k]) THEN "-" ELSE heads[k]]

\* .replace(/[^\w...-]/g, ''): delete every unit outside the allowed class
DeleteBad(s) == SelectSeq(s, SlugCharOk)

\* .replace(/-+/g, '-'): every maximal run of hyphens becomes one hyphen
CollapseHyphens(s) ==
    KeepAt(s, {i \in 1..Len(s) : ~(s[i] = "-" /\ i > 1 /\ s[i - 1] = "-")})

\* String.prototype.slice(from, to) with 0 <= from <= to (the end is clamped)
Slice(s, from, to) ==
    SubSeq(s, (IF from < Len(s) THEN from ELSE Len(s)) + 1,
              IF to < Len(s) THEN to ELSE Len(s))

\* x || y on strings: the empty string is falsy
OrElse(x, y) == IF x = <<>> THEN y ELSE x

slugifyNoSlice(str) ==
    OrElse(CollapseHyphens(DeleteBad(SpacesToHyphen(Trim(str)))), FallbackSlug)

slugifyCollapseFirst(str) ==
    OrElse(Slice(DeleteBad(CollapseHyphens(SpacesToHyphen(Trim(str)))), 0, SlugMax),
           FallbackSlug)

slugify(str) ==
    OrElse(Slice(CollapseHyphens(DeleteBad(SpacesToHyphen(Trim(str)))), 0, SlugMax),
           FallbackSlug)

(***************************************************************************)
(* Inputs of slugify: a run of word characters (so that the 80-unit cut    *)
(* is reached) followed by up to MaxTail free units.                       *)
(***************************************************************************)
RECURSIVE SeqsUpTo(_, _)
SeqsUpTo(S, n) ==
    IF n = 0 THEN {<<>>}
    ELSE LET shorter == SeqsUpTo(S, n - 1)
         IN  shorter \cup {Append(s, c) : s \in shorter, c \in S}

Pad(k) == [i \in 1..k |-> "a"]

PadLens == {0, SlugMax - 2, SlugMax - 1, SlugMax}

SlugInputs == {Pad(k) \o t : k \in PadLens, t \in SeqsUpTo(InputChars, MaxTail)}

Unset == <<"unset">>

(***************************************************************************)
(* The specification of slugify's callers: normalise a title, then         *)
(* normalise the stored slug again (getPost, the publish handler).         *)
(***************************************************************************)
NoFiles == [f \in {} |-> <<>>]

BuildIdle ==
    /\ postsJson = <<>>
    /\ content = NoFiles
    /\ lastRun = "none"
    /\ readJson = <<>>
    /\ builds = 0
    /\ jsonKind = "list"
    /\ written = {}

\* null of JavaScript, where a string is expected
Null == <<"null">>

CatsIdle ==
    /\ wpCategories = <<>>
    /\ catPostsData = <<>>
    /\ allCategoriesWithSlug = <<>>
    /\ categoryDir = NoFiles
    /\ catIdx = 0
    /\ cpc = "idle"

LinksIdle ==
    /\ wpPath = <<>>
    /\ staticSlugs = <<>>
    /\ wpSlug = Null
    /\ found = Null
    /\ strategy = 0
    /\ lpc = "idle"
    /\ urlToRelative = <<>>
    /\ hrefOut = [kind |-> "none", path |-> <<>>, dir |-> "", slug |-> <<>>]
    /\ redirectMap = <<>>

\* no request has been served
NoResponse == [status |-> 0, kind |-> "none", slug |-> <<>>]

WriterIdle ==
    /\ drafts = NoFiles
    /\ trail = <<>>
    /\ response = NoResponse
    /\ requests = 0

PagesIdle ==
    /\ list = <<>>
    /\ kind = "main"
    /\ totalPages = 0
    /\ pageNum = 0
    /\ pages = <<>>
    /\ pageNumbers = <<>>
    /\ ppc = "idle"

SlugIdle ==
    /\ input = <<>>
    /\ slug1 = Unset
    /\ slug2 = Unset
    /\ spc = "idle"

InitSlug ==
    /\ input \in SlugInputs
    /\ slug1 = Unset
    /\ slug2 = Unset
    /\ spc = "start"
    /\ BuildIdle
    /\ PagesIdle
    /\ CatsIdle
    /\ LinksIdle
    /\ WriterIdle

SlugifyOnce ==
    /\ spc = "start"
    /\ slug1' = slugify(input)
    /\ spc' = "once"
    /\ UNCHANGED <<input, slug2>>
    /\ UNCHANGED buildVars
    /\ UNCHANGED pageVars
    /\ UNCHANGED catVars
    /\ UNCHANGED linkVars
    /\ UNCHANGED writerVars

SlugifyAgain ==
    /\ spc = "once"
    /\ slug2' = slugify(slug1)
    /\ spc' = "twice"
    /\ UNCHANGED <<input, slug1>>
    /\ UNCHANGED buildVars
    /\ UNCHANGED pageVars
    /\ UNCHANGED catVars
    /\ UNCHANGED linkVars
    /\ UNCHANGED writerVars

NextSlug == SlugifyOnce \/ SlugifyAgain

SpecSlug == InitSlug /\ [][NextSlug]_vars

(***************************************************************************)
(* Properties of slugify.                                                  *)
(***************************************************************************)
\* C9: normalising twice gives what normalising once gives, for every input:
\* slugify(slugify(s)) = slugify(s).
SlugifyIdempotent == spc = "twice" => slug2 = slug1

\* C9 witness: an input longer than 80 units whose cut form ends in a hyphen
\* has been normalised twice.
SlugifyTwiceOnCutHyphen ==
    /\ spc = "twice"
    /\ Len(input) > SlugMax
    /\ Len(slug1) = SlugMax
    /\ slug1[Len(slug1)] = "-"
    /\ slug1 # input

NoAdjacentHyphens(s) == \A i \in 1..(Len(s) - 1) : ~(s[i] = "-" /\ s[i + 1] = "-")

\* the range of slugify: non-empty, at most 80 units, allowed units only, no
\* white space, no two hyphens in a row
SlugInRange(s) ==
    /\ s # <<>>
    /\ Len(s) <= SlugMax
    /\ \A i \in 1..Len(s) : SlugCharOk(s[i]) /\ ~IsSpace(s[i])
    /\ NoAdjacentHyphens(s)

\* punctuation of the input alphabet: the deleted unit and the hyphen
IsPunctuation(c) == c \in {"!", "-"}

\* C10 as stated: the slug is in range, and an empty or all-punctuation input
\* yields exactly "post".
SlugifyRangeAllPunctuation ==
    spc # "start" =>
        /\ SlugInRange(slug1)
        /\ (\A i \in 1..Len(input) : IsPunctuation(input[i])) => slug1 = FallbackSlug

\* C10 amended: the slug is in range, and an input that, once trimmed, is empty
\* or made only of units slugify deletes yields exactly "post" (a hyphen or
\* white space between deleted units survives as a hyphen).
SlugifyRangeAllDeleted ==
    spc # "start" =>
        /\ SlugInRange(slug1)
        /\ (\A i \in 1..Len(Trim(input)) :
                ~SlugCharOk(Trim(input)[i]) /\ ~IsSpace(Trim(input)[i]))
            => slug1 = FallbackSlug

\* C10 witness: a non-empty input made only of deleted units and surrounding
\* white space has been normalised to the fallback token.
SlugifyFellBack ==
    /\ spc # "start"
    /\ Len(input) >= 2
    /\ \E i \in 1..Len(input) : input[i] = "!"
    /\ \A i \in 1..Len(input) : input[i] \in {"!", " "}
    /\ slug1 = FallbackSlug

(***************************************************************************)
(* Pagination of one listing: the main listing of the build and of the     *)
(* import (index.html, page/N.html), or one category listing of the        *)
(* import (category/<slug>.html, category/<slug>-N.html).  The listing     *)
(* is the sequence of its records; a record is named by its rank.          *)
(***************************************************************************)
PER_PAGE == 10

Ellipsis == 0       \* the marker '...' of getPageNumbers; page numbers are >= 1

Max(a, b) == IF a > b THEN a ELSE b

Min(a, b) == IF a < b THEN a ELSE b

\* Math.ceil(n / d) for n >= 0, d > 0
CeilDiv(n, d) == (n + d - 1) \div d

\* Math.ceil(postsData.length / PER_PAGE)
TotalPages(n) == CeilDiv(n, PER_PAGE)

\* Math.max(1, Math.ceil(catPosts.length / PER_PAGE))
TotalCatPages(n) == Max(1, CeilDiv(n, PER_PAGE))

PageStartNext(n) == n * PER_PAGE

\* const start = (pageNum - 1) * PER_PAGE
PageStart(n) == (n - 1) * PER_PAGE

\* postsData.slice(start, start + PER_PAGE)
PagePosts(posts, n) == Slice(posts, PageStart(n), PageStart(n) + PER_PAGE)

Range(lo, hi) == [i \in 1..(hi - lo + 1) |-> lo + i - 1]

getPageNumbersNarrow(current, total) ==
    IF total <= 1 THEN <<1>>
    ELSE LET left  == Max(2, current - 1)
             right == Min(total - 1, current + 1)
         IN  <<1>>
             \o (IF left > 2 THEN <<Ellipsis>> ELSE <<>>)
             \o Range(left, right)
             \o (IF right < total - 1 THEN <<Ellipsis>> ELSE <<>>)
             \o (IF total > 1 THEN <<total>> ELSE <<>>)

getPageNumbersLateEllipsis(current, total) ==
    IF total <= 1 THEN <<1>>
    ELSE LET left  == Max(2, current - 2)
             right == Min(total - 1, current + 2)
         IN  <<1>>
             \o (IF left > 3 THEN <<Ellipsis>> ELSE <<>>)
             \o Range(left, right)
             \o (IF right < total - 1 THEN <<Ellipsis>> ELSE <<>>)
             \o (IF total > 1 THEN <<total>> ELSE <<>>)

getPageNumbers(current, total) ==
    IF total <= 1 THEN <<1>>
    ELSE LET windowSize == 2
             left  == Max(2, current - windowSize)
             right == Min(total - 1, current + windowSize)
         IN  <<1>>
             \o (IF left > 2 THEN <<Ellipsis>> ELSE <<>>)
             \o Range(left, right)
             \o (IF right < total - 1 THEN <<Ellipsis>> ELSE <<>>)
             \o (IF total > 1 THEN <<total>> ELSE <<>>)

\* buildCategoryPagination: no control at all for a single page
CategoryPageNumbers(current, total) ==
    IF total <= 1 THEN <<>> ELSE getPageNumbers(current, total)

InitPages ==
    /\ \E n \in 0..MaxPosts : list = [i \in 1..n |-> i]
    /\ kind \in {"main", "category"}
    /\ totalPages = 0
    /\ pageNum = 0
    /\ pages = <<>>
    /\ pageNumbers = <<>>
    /\ ppc = "start"
    /\ SlugIdle
    /\ BuildIdle
    /\ CatsIdle
    /\ LinksIdle
    /\ WriterIdle

\* build-from-markdown.js:299, import-wp.js:343
CountPages ==
    /\ ppc = "start"
    /\ kind = "main"
    /\ totalPages' = TotalPages(Len(list))
    /\ pageNum' = 1
    /\ ppc' = "index"
    /\ UNCHANGED <<list, kind, pages, pageNumbers>>
    /\ UNCHANGED slugVars
    /\ UNCHANGED buildVars
    /\ UNCHANGED catVars
    /\ UNCHANGED linkVars
    /\ UNCHANGED writerVars

\* page 1 of the main listing is index.html, written whatever totalPages is
WriteIndex ==
    /\ ppc = "index"
    /\ pages' = <<Slice(list, 0, PER_PAGE)>>
    /\ pageNumbers' = getPageNumbers(1, totalPages)
    /\ pageNum' = 2
    /\ ppc' = "pages"
    /\ UNCHANGED <<list, kind, totalPages>>
    /\ UNCHANGED slugVars
    /\ UNCHANGED buildVars
    /\ UNCHANGED catVars
    /\ UNCHANGED linkVars
    /\ UNCHANGED writerVars

\* for (let pageNum = 2; pageNum <= totalPages; pageNum++)
WritePage ==
    /\ ppc = "pages"
    /\ kind = "main"
    /\ pageNum <= totalPages
    /\ pages' = Append(pages, PagePosts(list, pageNum))
    /\ pageNumbers' = getPageNumbers(pageNum, totalPages)
    /\ pageNum' = pageNum + 1
    /\ UNCHANGED <<list, kind, totalPages, ppc>>
    /\ UNCHANGED slugVars
    /\ UNCHANGED buildVars
    /\ UNCHANGED catVars
    /\ UNCHANGED linkVars
    /\ UNCHANGED writerVars

\* import-wp.js:613
CountCatPages ==
    /\ ppc = "start"
    /\ kind = "category"
    /\ totalPages' = TotalCatPages(Len(list))
    /\ pageNum' = 1
    /\ ppc' = "pages"
    /\ UNCHANGED <<list, kind, pages, pageNumbers>>
    /\ UNCHANGED slugVars
    /\ UNCHANGED buildVars
    /\ UNCHANGED catVars
    /\ UNCHANGED linkVars
    /\ UNCHANGED writerVars

\* for (let pageNum = 1; pageNum <= totalCatPages; pageNum++)
WriteCatPage ==
    /\ ppc = "pages"
    /\ kind = "category"
    /\ pageNum <= totalPages
    /\ pages' = Append(pages, PagePosts(list, pageNum))
    /\ pageNumbers' = CategoryPageNumbers(pageNum, totalPages)
    /\ pageNum' = pageNum + 1
    /\ UNCHANGED <<list, kind, totalPages, ppc>>
    /\ UNCHANGED slugVars
    /\ UNCHANGED buildVars
    /\ UNCHANGED catVars
    /\ UNCHANGED linkVars
    /\ UNCHANGED writerVars

FinishPages ==
    /\ ppc = "pages"
    /\ pageNum > totalPages
    /\ ppc' = "done"
    /\ UNCHANGED <<list, kind, totalPages, pageNum, pages, pageNumbers>>
    /\ UNCHANGED slugVars
    /\ UNCHANGED buildVars
    /\ UNCHANGED catVars
    /\ UNCHANGED linkVars
    /\ UNCHANGED writerVars

NextPages ==
    \/ CountPages
    \/ WriteIndex
    \/ WritePage
    \/ CountCatPages
    \/ WriteCatPage
    \/ FinishPages

SpecPages == InitPages /\ [][NextPages]_vars

(***************************************************************************)
(* Properties of the pagination.                                           *)
(***************************************************************************)
PagesCounted == ppc \in {"index", "pages", "done"}

\* C5: the number of pages of a listing of N records is ceil(N / 10) and never
\* less than 1, for the main listing as for a category listing.
PageCountAtLeastOne ==
    PagesCounted =>
        /\ totalPages = Max(1, CeilDiv(Len(list), PER_PAGE))
        /\ totalPages >= 1

RECURSIVE Concat(_, _)
Concat(ps, n) == IF n = 0 THEN <<>> ELSE Concat(ps, n - 1) \o ps[n]

\* C6: page k holds exactly the records at the (0-based) positions
\* (k-1)*S .. min(k*S, N)-1 in list order, and the pages 1..totalPages put
\* together are the listing: every record exactly once.
PagesPartitionList ==
    /\ \A k \in 1..Len(pages) :
          /\ Len(pages[k]) = Max(0, Min(k * PER_PAGE, Len(list)) - (k - 1) * PER_PAGE)
          /\ \A j \in 1..Len(pages[k]) : pages[k][j] = list[(k - 1) * PER_PAGE + j]
    /\ ppc = "done" =>
          /\ Len(pages) >= totalPages
          /\ Concat(pages, totalPages) = list
          /\ \A r \in 1..Len(list) :
                Cardinality({<<k, j>> \in (1..totalPages) \X (1..PER_PAGE) :
                                j <= Len(pages[k]) /\ pages[k][j] = list[r]}) = 1

\* C6 witness: a listing of several pages whose last page is short is written.
ShortLastPageWritten ==
    /\ ppc = "done"
    /\ totalPages >= 3
    /\ Len(pages[totalPages]) \in 1..(PER_PAGE - 1)

\* the page whose control was rendered last
Current == pageNum - 1

Numbers(out) == SelectSeq(out, LAMBDA x : x # Ellipsis)

SeqToSet(s) == {s[i] : i \in 1..Len(s)}

ControlRendered == ppc \in {"pages", "done"} /\ pageNumbers # <<>>

\* C7: for 1 <= c <= T the control lists exactly page 1, page T and the pages
\* within 2 of c, strictly increasing; for T <= 1 it is [1]; c=1,T=10 gives
\* 1,2,3,...,10 and c=5,T=10 gives 1,...,3,4,5,6,7,...,10.
WindowNumbers ==
    ControlRendered =>
        LET c   == Current
            T   == totalPages
            out == pageNumbers
            ns  == Numbers(out)
        IN  /\ T <= 1 => out = <<1>>
            /\ (T >= 1 /\ c \in 1..T) =>
                  /\ SeqToSet(ns) =
                        {1, T} \cup {p \in 1..T : p - c <= 2 /\ c - p <= 2}
                  /\ \A i \in 1..(Len(ns) - 1) : ns[i] < ns[i + 1]
            /\ (c = 1 /\ T = 10) => out = <<1, 2, 3, Ellipsis, 10>>
            /\ (c = 5 /\ T = 10) => out = <<1, Ellipsis, 3, 4, 5, 6, 7, Ellipsis, 10>>

\* C7 witness: the control of page 5 of 10 has been rendered.
WindowMidListing ==
    /\ ControlRendered
    /\ Current = 5
    /\ totalPages = 10
    /\ Len(pageNumbers) = 9

\* C8: one marker stands between two neighbouring listed numbers exactly where
\* page numbers are left out between them (the numbers differ by more than one,
\* as 1 and 3 in 1,...,3,4,5,6,7,...,10), and nowhere else: never between
\* consecutive numbers, never two in a row, never first or last.
EllipsisPlacement ==
    ControlRendered =>
        LET out == pageNumbers
        IN  /\ out[1] # Ellipsis
            /\ out[Len(out)] # Ellipsis
            /\ \A i \in 1..(Len(out) - 1) :
                  /\ ~(out[i] = Ellipsis /\ out[i + 1] = Ellipsis)
                  /\ (out[i] # Ellipsis /\ out[i + 1] # Ellipsis) => out[i + 1] = out[i] + 1
            /\ \A i \in 2..(Len(out) - 1) :
                  out[i] = Ellipsis => out[i + 1] - out[i - 1] > 1

\* C8 witness: a control with a marker on both sides, the left one hiding
\* exactly one page, has been rendered.
EllipsisBothSides ==
    /\ ControlRendered
    /\ Len(pageNumbers) >= 4
    /\ pageNumbers[2] = Ellipsis
    /\ pageNumbers[3] = 3
    /\ pageNumbers[Len(pageNumbers) - 1] = Ellipsis

(***************************************************************************)
(* Dates.  A date string is 'YYYY-MM-DD' (ymd), a date-time string of a    *)
(* day such as '2025-02-08T10:30:00Z' (stamp), a string Date cannot      *)
(* parse such as 'soon' (bad), or the empty string.  Time is counted in    *)
(* half days; one day of the model stands for one 30-day month of          *)
(* formatDateRel.                                                          *)
(***************************************************************************)
Days == 1..MaxDay

Ymd(d) == [kind |-> "ymd", day |-> d]

Stamp(d) == [kind |-> "stamp", day |-> d]

BadDate == [kind |-> "bad", day |-> 0]

NoDate == [kind |-> "empty", day |-> 0]

\* !isNaN(new Date(dateStr).getTime())
DateValid(s) == s.kind \in {"ymd", "stamp"}

\* new Date(dateStr).getTime() of a valid date string
DateTime(s) == IF s.kind = "stamp" THEN 2 * s.day + 1 ELSE 2 * s.day

formatDateYMD(dateStr) ==
    IF dateStr = NoDate THEN NoDate
    ELSE IF ~DateValid(dateStr) THEN dateStr
    ELSE Ymd(dateStr.day)

formatDateRel(dateStr, now) ==
    IF dateStr = NoDate THEN ""
    ELSE IF ~DateValid(dateStr) THEN ""
    ELSE IF now - dateStr.day < 1 THEN "recently"
    ELSE "ago"

\* (a, b) => new Date(b.date) - new Date(a.date); NaN counts as +0 in the sort
CompareDates(a, b) ==
    IF ~DateValid(a) \/ ~DateValid(b) THEN 0
    ELSE IF DateTime(b) < DateTime(a) THEN 0 - 1
    ELSE IF DateTime(b) > DateTime(a) THEN 1
    ELSE 0

(***************************************************************************)
(* Array.prototype.sort(comparefn) by the date strings of the elements.     *)
(* With a consistent comparator the result is the stable                   *)
(* sort; otherwise ECMAScript leaves the order to the implementation,      *)
(* and every permutation is a possible outcome.                            *)
(***************************************************************************)
\* the comparator of both sorts, on elements with a date field
ByDateDesc(x, y) == CompareDates(x.date, y.date)

RECURSIVE InsertSorted(_, _)
InsertSorted(sorted, x) ==
    IF sorted = <<>> THEN <<x>>
    ELSE IF ByDateDesc(sorted[Len(sorted)], x) <= 0
         THEN Append(sorted, x)
         ELSE Append(InsertSorted(SubSeq(sorted, 1, Len(sorted) - 1), x),
                     sorted[Len(sorted)])

RECURSIVE StableSort(_)
StableSort(xs) ==
    IF xs = <<>> THEN <<>>
    ELSE InsertSorted(StableSort(SubSeq(xs, 1, Len(xs) - 1)), xs[Len(xs)])

ConsistentComparator(xs) ==
    \A i, j, k \in 1..Len(xs) :
        LET a == xs[i]
            b == xs[j]
            c == xs[k]
        IN  /\ (ByDateDesc(a, b) = 0 /\ ByDateDesc(b, c) = 0) => ByDateDesc(a, c) = 0
            /\ (ByDateDesc(a, b) < 0 /\ ByDateDesc(b, c) < 0) => ByDateDesc(a, c) < 0
            /\ (ByDateDesc(a, b) > 0 /\ ByDateDesc(b, c) > 0) => ByDateDesc(a, c) > 0

AllOrders(xs) ==
    {[i \in 1..Len(xs) |-> xs[f[i]]] :
        f \in {g \in [1..Len(xs) -> 1..Len(xs)] :
                 \A i, j \in 1..Len(xs) : i # j => g[i] # g[j]}}

SortOutcomes(xs) ==
    IF ConsistentComparator(xs) THEN {StableSort(xs)} ELSE AllOrders(xs)

(***************************************************************************)
(* The build: scripts/build-from-markdown.js, main().                      *)
(***************************************************************************)
SlugA == <<"a">>

SlugB == <<"b">>

SlugC == <<"c">>

\* the slug of the file '.md': file.slice(0, -3) is the empty string
SlugNone == <<>>

\* fs.readdirSync lists the names in order
FileOrder == <<SlugNone, SlugA, SlugC>>

ContentSlugs == {FileOrder[i] : i \in 1..Len(FileOrder)}

PersistedSlugs == {SlugA, SlugB}

OldTitle == <<"O">>

NewTitle == <<"N">>

OldExcerpt == <<"o">>

OldCategories == <<"cat">>

\* the front matter of a content file as parseFrontmatter returns it; an absent
\* key and an empty value are both falsy
PublishedMetas ==
    [title : {<<>>, NewTitle},
     date  : {NoDate, BadDate, Stamp(MaxDay)},
     draft : {"false"},
     excerpt : {<<>>},
     categories : {<<>>}]

\* a file with draft: true; main() reads none of its other keys
DraftMeta ==
    [title |-> NewTitle, date |-> Stamp(MaxDay), draft |-> "true",
     excerpt |-> <<>>, categories |-> <<>>]

Metas == PublishedMetas \cup {DraftMeta}

\* the front matter of the file '.md': no title, not a draft
UntitledMeta ==
    [title |-> <<>>, date |-> Stamp(MaxDay), draft |-> "false",
     excerpt |-> <<>>, categories |-> <<>>]

\* a record of data/posts.json written by an earlier run or by hand
PersistedRecords ==
    [slug : PersistedSlugs,
     title : {OldTitle},
     date : {BadDate} \cup {Ymd(d) : d \in Days},
     dateRel : {"ago"},
     categories : {OldCategories},
     excerpt : {OldExcerpt}]

IndexOfSlug(m, slug) ==
    IF \E i \in 1..Len(m) : m[i].slug = slug
    THEN CHOOSE i \in 1..Len(m) : m[i].slug = slug
    ELSE 0

MapSetMerge(m, rec) ==
    LET i == IndexOfSlug(m, rec.slug)
    IN  IF i = 0 THEN Append(m, rec)
        ELSE [m EXCEPT ![i] =
                [rec EXCEPT !.excerpt = OrElse(rec.excerpt, m[i].excerpt),
                            !.categories = OrElse(rec.categories, m[i].categories)]]

\* Map.prototype.set: an existing key keeps its place and gets the new value
MapSet(m, rec) ==
    LET i == IndexOfSlug(m, rec.slug)
    IN  IF i = 0 THEN Append(m, rec) ELSE [m EXCEPT ![i] = rec]

\* new Map(postsData.map((p) => [p.slug, { ...p }])), as the sequence of its values
RECURSIVE MapFromList(_)
MapFromList(ps) ==
    IF ps = <<>> THEN <<>>
    ELSE MapSet(MapFromList(SubSeq(ps, 1, Len(ps) - 1)), ps[Len(ps)])

IsDraft(meta) == meta.draft = "true"

\* the record main() derives from content/<slug>.md
DocRecord(slug, meta, now) ==
    LET title   == OrElse(meta.title, slug)
        dateStr == IF meta.date = NoDate THEN Ymd(now) ELSE meta.date
    IN  [slug |-> slug,
         title |-> title,
         date |-> formatDateYMD(dateStr),
         dateRel |-> formatDateRel(dateStr, now),
         categories |-> meta.categories,
         excerpt |-> OrElse(meta.excerpt, <<>>)]

\* for (const file of files): drafts are skipped, the others set their key
RECURSIVE MergeFiles(_, _, _, _)
MergeFiles(m, files, dir, now) ==
    IF files = <<>> THEN m
    ELSE LET slug == Head(files)
         IN  IF IsDraft(dir[slug])
             THEN MergeFiles(m, Tail(files), dir, now)
             ELSE MergeFiles(MapSet(m, DocRecord(slug, dir[slug], now)),
                             Tail(files), dir, now)

\* fs.readdirSync(CONTENT_DIR).filter((f) => f.endsWith('.md')), without '.md'
FilesOf(dir) == SelectSeq(FileOrder, LAMBDA f : f \in DOMAIN dir)

\* [...bySlug.values()] before the sort
Merged(ps, dir, now) == MergeFiles(MapFromList(ps), FilesOf(dir), dir, now)

\* the front matter of c.md: a title and a date, not a draft
DatedMeta ==
    [title |-> NewTitle, date |-> Stamp(MaxDay), draft |-> "false",
     excerpt |-> <<>>, categories |-> <<>>]

\* a.md has any front matter; '.md' and c.md, when present, have the one above
Dirs ==
    {d \in UNION {[fs -> Metas] : fs \in SUBSET ContentSlugs} :
        /\ SlugNone \in DOMAIN d => d[SlugNone] = UntitledMeta
        /\ SlugC \in DOMAIN d => d[SlugC] = DatedMeta}

\* what data/posts.json can be: a list of records, no file, text JSON.parse
\* rejects, or JSON that is not an array (postsData.map is not a function)
JsonKinds == {"list", "absent", "unparseable", "notarray"}

ReadCatalogLenient(k, ps) == [ok |-> TRUE, data |-> IF k = "list" THEN ps ELSE <<>>]

\* postsData after the try block, or the abnormal end of the run
ReadCatalog(k, ps) ==
    IF k \in {"unparseable", "notarray"} THEN [ok |-> FALSE, data |-> <<>>]
    ELSE [ok |-> TRUE, data |-> IF k = "list" THEN ps ELSE <<>>]

\* the files one complete run writes: a page per published document, the
\* catalog, the first listing page, the archive, the sitemap and the feed
FilesWritten(dir) ==
    {<<"posts", f>> : f \in {g \in DOMAIN dir : ~IsDraft(dir[g])}}
        \cup {<<"root", <<n>>>> :
                 n \in {"data/posts.json", "index.html", "archive.html", "sitemap.xml",
                        "feed.xml"}}

\* one run of main() on the catalog ps of kind k, the documents dir and the
\* output files wr: what it leaves in data/posts.json and among the files
RunBuild(ps, k, dir, wr) ==
    LET r == ReadCatalog(k, ps)
    IN  IF r.ok
        THEN /\ \E now \in Days :
                   postsJson' \in SortOutcomes(Merged(r.data, dir, now))
             /\ readJson' = r.data
             /\ jsonKind' = "list"
             /\ written' = wr \cup FilesWritten(dir)
             /\ lastRun' = "build"
        ELSE /\ lastRun' = "aborted"
             /\ postsJson' = ps
             /\ jsonKind' = k
             /\ written' = wr
             /\ UNCHANGED readJson

\* node scripts/build-from-markdown.js, run from the command line
Build ==
    /\ builds < MaxBuilds
    /\ builds' = builds + 1
    /\ RunBuild(postsJson, jsonKind, content, written)
    /\ trail' = IF trail # <<>> /\ trail[Len(trail)] = "build run" THEN trail
                 ELSE Append(trail, "build run")
    /\ UNCHANGED content
    /\ UNCHANGED slugVars
    /\ UNCHANGED pageVars
    /\ UNCHANGED catVars
    /\ UNCHANGED linkVars
    /\ UNCHANGED <<drafts, response, requests>>

(***************************************************************************)
(* The import: scripts/import-wp.js, main(), up to data/posts.json.        *)
(***************************************************************************)
\* .replace(/[^\w...-]/g, '-'): every unit outside the allowed class becomes a hyphen
RECURSIVE ReplaceBad(_)
ReplaceBad(s) ==
    IF s = <<>> THEN <<>>
    ELSE <<IF SlugCharOk(Head(s)) THEN Head(s) ELSE "-">> \o ReplaceBad(Tail(s))

\* decodeURIComponent throws a URIError on a malformed escape, written "%"
DecodeThrows(name) == \E i \in 1..Len(name) : name[i] = "%"

getPostSlug(item) ==
    IF item.name # <<>> /\ ~DecodeThrows(item.name)
    THEN OrElse(Slice(CollapseHyphens(ReplaceBad(item.name)), 0, SlugMax), FallbackSlug)
    ELSE slugify(item.title)

\* the published posts of the export: wp:post_name, title, wp:post_date
Items ==
    [name : {<<>>, <<"a">>, <<"a", " ", "2">>, <<"%">>},
     title : {<<"a", "!">>},
     date : {Stamp(1), BadDate}]

\* '-' + (i + 1), for the 0-based index i
Suffix(i) == <<"-", ToString(i + 1)>>

UniqueSlugKeep(slug, used, i) == slug

\* while (slugUsed.has(slug)) slug = slug + '-' + (i + 1)
RECURSIVE UniqueSlug(_, _, _)
UniqueSlug(slug, used, i) ==
    IF slug \in used THEN UniqueSlug(slug \o Suffix(i), used, i) ELSE slug

\* the loop over the sorted posts; done is postsData so far
RECURSIVE ImportLoop(_, _, _)
ImportLoop(posts, done, now) ==
    IF Len(done) = Len(posts) THEN done
    ELSE LET i    == Len(done)
             item == posts[i + 1]
             used == {done[k].slug : k \in 1..Len(done)}
             slug == UniqueSlug(getPostSlug(item), used, i)
         IN  ImportLoop(posts,
                        Append(done, [slug |-> slug,
                                      title |-> item.title,
                                      date |-> formatDateYMD(item.date),
                                      dateRel |-> formatDateRel(item.date, now),
                                      categories |-> <<>>,
                                      excerpt |-> <<>>]),
                        now)

\* The import reads neither data/posts.json nor content/; it is run on a
\* repository that has neither yet (the migration that precedes authoring).
ImportWp ==
    /\ lastRun = "none"
    /\ jsonKind = "absent"
    /\ postsJson = <<>>
    /\ content = NoFiles
    /\ \E items \in SeqsUpTo(Items, MaxItems), now \in Days :
          \E posts \in SortOutcomes(items) :
              postsJson' = ImportLoop(posts, <<>>, now)
    /\ lastRun' = "import"
    /\ jsonKind' = "list"
    /\ UNCHANGED <<content, readJson, builds, written>>
    /\ UNCHANGED slugVars
    /\ UNCHANGED pageVars
    /\ UNCHANGED catVars
    /\ UNCHANGED linkVars
    /\ UNCHANGED writerVars

Init ==
    /\ jsonKind \in JsonKinds
    /\ postsJson \in IF jsonKind = "list" THEN SeqsUpTo(PersistedRecords, MaxPersisted)
                     ELSE {<<>>}
    /\ content \in Dirs
    /\ lastRun = "none"
    /\ readJson = <<>>
    /\ builds = 0
    /\ written = {}
    /\ SlugIdle
    /\ PagesIdle
    /\ CatsIdle
    /\ LinksIdle
    /\ WriterIdle

Next ==
    \/ Build
    \/ ImportWp

Spec == Init /\ [][Next]_vars

(***************************************************************************)
(* Properties of the reconciliation.                                       *)
(***************************************************************************)
SlugsOf(ps) == {ps[i].slug : i \in 1..Len(ps)}

\* C1: a document that carries draft = true has no record in the list the build
\* writes, also when the persisted list held a record with its identifier.
DraftsExcluded ==
    lastRun = "build" =>
        \A s \in DOMAIN content : IsDraft(content[s]) => s \notin SlugsOf(postsJson)

\* C2: for a non-draft document X the written list has one record for X, made
\* only of the fields derived from the document (for the clock of the run); no
\* field of a persisted record for X survives.
DocumentReplacesRecord ==
    lastRun = "build" =>
        \A s \in DOMAIN content :
            ~IsDraft(content[s]) =>
                /\ Cardinality({i \in 1..Len(postsJson) : postsJson[i].slug = s}) = 1
                /\ \E now \in Days : \E i \in 1..Len(postsJson) :
                      postsJson[i] = DocRecord(s, content[s], now)

\* C2 witness: the list a build read held a record for X, a non-draft document
\* X exists, and the build has written another record for X.
PersistedRecordReplaced ==
    /\ lastRun = "build"
    /\ \E s \in DOMAIN content :
          /\ ~IsDraft(content[s])
          /\ \E i \in 1..Len(readJson) : readJson[i].slug = s /\ readJson[i].title = OldTitle
          /\ \E i \in 1..Len(postsJson) : postsJson[i].slug = s /\ postsJson[i].title # OldTitle

\* C3: in the written list every record is dated no earlier than the records
\* after it.  Stated in its weakest reading, on the pairs whose dates both
\* parse; a list that breaks it breaks every reading of the claim.
ListOrderedByDate ==
    lastRun = "build" =>
        \A i, j \in 1..Len(postsJson) :
            (i < j /\ DateValid(postsJson[i].date) /\ DateValid(postsJson[j].date))
                => DateTime(postsJson[i].date) >= DateTime(postsJson[j].date)

\* C4: no two records of the list written by the build or by the import have
\* the same identifier.
UniqueSlugs ==
    lastRun \in {"build", "import"} =>
        \A i, j \in 1..Len(postsJson) : i # j => postsJson[i].slug # postsJson[j].slug

\* C4 witness: the import met an identifier already in use (a second item
\* deriving 'a-2') and has written it renamed.
ImportedDuplicateRenamed ==
    /\ lastRun = "import"
    /\ Len(postsJson) >= 2
    /\ \E i \in 1..Len(postsJson) : postsJson[i].slug = <<"a", "-", "2", "-", "2">>

(***************************************************************************)
(* The category tree: scripts/import-wp.js, main(), the wp:category        *)
(* elements of the export and the category/<slug>.html listings.           *)
(* A display name is a string of units; 'Uncategorized' is written "U" and  *)
(* the name of the profile entry, written in Katakana, "kana".             *)
(***************************************************************************)
\* the wp:category_nicename values, in the order of the elements of the export
Nicenames == <<"n1", "n2", "n3">>

\* wp:category_parent of a top-level category (the empty string)
NoParent == ""

\* a wp:category_parent that names no wp:category element of the export
MissingParent == "gone"

Uncategorized == <<"U">>

\* the display name buildSidebarCategoryList links to profile.html
Profile == <<"kana">>

\* the display names other than 'Uncategorized', in the order of Array.prototype.sort()
SortedNames == << <<"a">>, <<"a", " ", "b">>, <<"b">>, Profile >>

CatNames == {SortedNames[k] : k \in 1..Len(SortedNames)} \cup {Uncategorized}

PostTags == {<<"a">>, <<"b">>}

\* the posts of postsData with their categories, newest first
TaggedPosts ==
    {<< [slug |-> <<"p", "1">>, categories |-> <<t1>>],
        [slug |-> <<"p", "2">>, categories |-> <<t2>>] >> : t1 \in PostTags, t2 \in PostTags}

ParentOf(cs, n) ==
    IF \E i \in 1..Len(cs) : cs[i].nicename = n
    THEN (CHOOSE c \in {cs[i] : i \in 1..Len(cs)} : c.nicename = n).parent
    ELSE NoParent

\* the parent of the parent ... (k times) of n
RECURSIVE AncestorAt(_, _, _)
AncestorAt(cs, n, k) == IF k = 0 THEN n ELSE AncestorAt(cs, ParentOf(cs, n), k - 1)

\* the parent relation is a forest: every chain of parents leaves the export
IsForest(cs) ==
    \A i \in 1..Len(cs) :
        AncestorAt(cs, cs[i].nicename, Len(cs)) \notin {cs[j].nicename : j \in 1..Len(cs)}

\* the wp:category elements an export can hold; nothing in main() asks the
\* parent pointers to form a forest
WpCategoryLists ==
    {[i \in 1..Len(Nicenames) |->
         [nicename |-> Nicenames[i], name |-> nm[i], parent |-> pr[i]]] :
         nm \in [1..Len(Nicenames) -> CatNames],
         pr \in [1..Len(Nicenames) ->
                    {NoParent, MissingParent} \cup {Nicenames[i] : i \in 1..Len(Nicenames)}]}

\* catByNicename, a Map in insertion order; an element without a name is left out
catByNicename(cs) == SelectSeq(cs, LAMBDA c : c.name # <<>>)

\* catByNicename.has(n)
HasCat(cat, n) == \E i \in 1..Len(cat) : cat[i].nicename = n

\* catByNicename.get(n)
GetCat(cat, n) == CHOOSE c \in {cat[i] : i \in 1..Len(cat)} : c.nicename = n

\* flatten a sequence of sequences
RECURSIVE Flatten(_)
Flatten(ss) == IF ss = <<>> THEN <<>> ELSE Head(ss) \o Flatten(Tail(ss))

getDirectChildren(cat, parentNicename) ==
    SelectSeq(cat, LAMBDA c : c.parent = parentNicename)

getDescendantNamesSelf(cat, nicename) ==
    IF HasCat(cat, nicename) THEN {GetCat(cat, nicename).name} ELSE {}

RECURSIVE getDescendantNames(_, _)
getDescendantNames(cat, nicename) ==
    IF ~HasCat(cat, nicename) THEN {}
    ELSE LET children == getDirectChildren(cat, nicename)
         IN  {GetCat(cat, nicename).name}
                 \cup UNION {getDescendantNames(cat, children[k].nicename) :
                                k \in 1..Len(children)}

\* the names of the top-level categories, without 'Uncategorized', sorted
topLevelCats(cat) ==
    LET top == SelectSeq(cat, LAMBDA c : c.parent = NoParent /\ c.name # Uncategorized)
    IN  Flatten([k \in 1..Len(SortedNames) |->
                    [i \in 1..Len(SelectSeq(top, LAMBDA c : c.name = SortedNames[k]))
                        |-> SortedNames[k]]])

\* nameToNicename.get(name): the last element with the name wins (Map.set)
nameToNicename(cat, name) ==
    LET at == {i \in 1..Len(cat) : cat[i].name = name}
    IN  cat[CHOOSE i \in at : \A j \in at : j <= i].nicename

CategoryFallback == <<"c", "a", "t", "e", "g", "o", "r", "y">>

categorySlug(name) == OrElse(slugify(name), CategoryFallback)

\* path.map(categorySlug).join('-')
RECURSIVE JoinSlugs(_)
JoinSlugs(path) ==
    IF path = <<>> THEN <<>>
    ELSE IF Len(path) = 1 THEN categorySlug(path[1])
    ELSE categorySlug(path[1]) \o <<"-">> \o JoinSlugs(Tail(path))

\* the entries addCategoryWithPath pushes for a node and the nodes below it
RECURSIVE addCategoryWithPath(_, _, _)
addCategoryWithPath(cat, nicename, pathNames) ==
    IF ~HasCat(cat, nicename) THEN <<>>
    ELSE LET info == GetCat(cat, nicename)
             path == Append(pathNames, info.name)
             children == getDirectChildren(cat, nicename)
         IN  <<[nicename |-> nicename, name |-> info.name, slug |-> JoinSlugs(path)]>>
                 \o Flatten([k \in 1..Len(children) |->
                                addCategoryWithPath(cat, children[k].nicename, path)])

\* the recursion of addCategoryWithPath (and of getDescendantNames) started at
\* the node meets a node that is its own ancestor: neither function keeps a
\* set of visited nodes, so the calls nest until the stack is exhausted
RecursesForever(cat, nicename) ==
    \E i \in 1..Len(cat) :
        /\ \E k \in 0..Len(cat) : AncestorAt(cat, cat[i].nicename, k) = nicename
        /\ \E k \in 1..Len(cat) : AncestorAt(cat, cat[i].nicename, k) = cat[i].nicename

\* one of the calls of the loop over topLevelCats does not return
TreeOverflows(cs) ==
    LET cat == catByNicename(cs)
        tops == topLevelCats(cat)
    IN  \E k \in 1..Len(tops) : RecursesForever(cat, nameToNicename(cat, tops[k]))

\* allCategoriesWithSlug after the loop over topLevelCats
CategoriesWithSlug(cs) ==
    LET cat == catByNicename(cs)
        tops == topLevelCats(cat)
    IN  Flatten([k \in 1..Len(tops) |->
                    addCategoryWithPath(cat, nameToNicename(cat, tops[k]), <<>>)])

\* catPosts: the posts with a category among the allowed names
CatPosts(posts, allowedNames) ==
    SelectSeq(posts, LAMBDA p : \E k \in 1..Len(p.categories) : p.categories[k] \in allowedNames)

InitCats ==
    /\ wpCategories \in WpCategoryLists
    /\ catPostsData \in TaggedPosts
    /\ allCategoriesWithSlug = <<>>
    /\ categoryDir = NoFiles
    /\ catIdx = 0
    /\ cpc = "start"
    /\ SlugIdle
    /\ BuildIdle
    /\ PagesIdle
    /\ LinksIdle
    /\ WriterIdle

\* the category tree; a recursion that never returns ends the run with a
\* RangeError (Maximum call stack size exceeded) before anything is written
BuildCategoryTree ==
    /\ cpc = "start"
    /\ IF TreeOverflows(wpCategories)
       THEN /\ cpc' = "overflow"
            /\ UNCHANGED <<allCategoriesWithSlug, catIdx>>
       ELSE /\ allCategoriesWithSlug' = CategoriesWithSlug(wpCategories)
            /\ catIdx' = 1
            /\ cpc' = "pages"
    /\ UNCHANGED <<wpCategories, catPostsData, categoryDir>>
    /\ UNCHANGED slugVars
    /\ UNCHANGED buildVars
    /\ UNCHANGED pageVars
    /\ UNCHANGED linkVars
    /\ UNCHANGED writerVars

\* one round of the loop that writes category/<slug>.html and its further pages
WriteCategoryPages ==
    /\ cpc = "pages"
    /\ catIdx <= Len(allCategoriesWithSlug)
    /\ LET cat == allCategoriesWithSlug[catIdx]
           allowedNames == getDescendantNames(catByNicename(wpCategories), cat.nicename)
           catPosts == CatPosts(catPostsData, allowedNames)
           file == [nicename |-> cat.nicename, name |-> cat.name,
                    posts |-> [k \in 1..Len(catPosts) |-> catPosts[k].slug]]
       IN  categoryDir' = [f \in DOMAIN categoryDir \cup {cat.slug} |->
                              IF f = cat.slug THEN file ELSE categoryDir[f]]
    /\ catIdx' = catIdx + 1
    /\ UNCHANGED <<wpCategories, catPostsData, allCategoriesWithSlug, cpc>>
    /\ UNCHANGED slugVars
    /\ UNCHANGED buildVars
    /\ UNCHANGED pageVars
    /\ UNCHANGED linkVars
    /\ UNCHANGED writerVars

FinishCategories ==
    /\ cpc = "pages"
    /\ catIdx > Len(allCategoriesWithSlug)
    /\ cpc' = "done"
    /\ UNCHANGED <<wpCategories, catPostsData, allCategoriesWithSlug, categoryDir, catIdx>>
    /\ UNCHANGED slugVars
    /\ UNCHANGED buildVars
    /\ UNCHANGED pageVars
    /\ UNCHANGED linkVars
    /\ UNCHANGED writerVars

NextCats ==
    \/ BuildCategoryTree
    \/ WriteCategoryPages
    \/ FinishCategories

SpecCats == InitCats /\ [][NextCats]_vars

(***************************************************************************)
(* Properties of the category tree.                                        *)
(***************************************************************************)
\* C11: the path identifiers computed for the category nodes are pairwise
\* distinct: no two entries of the generated category list share a slug.
PathIdentifiersDistinct ==
    cpc # "start" =>
        \A i, j \in 1..Len(allCategoriesWithSlug) :
            i # j => allCategoriesWithSlug[i].slug # allCategoriesWithSlug[j].slug

\* the display names of node n and of the nodes whose chain of parents meets n
NamesUnder(cs, n) ==
    {cs[i].name : i \in {j \in 1..Len(cs) :
                            \E k \in 0..Len(cs) : AncestorAt(cs, cs[j].nicename, k) = n}}

\* C12: every written category listing holds exactly the posts that carry the
\* display name of the listing's node or of one of its transitive descendants.
CategoryAggregation ==
    \A f \in DOMAIN categoryDir :
        categoryDir[f].posts =
            LET under == NamesUnder(wpCategories, categoryDir[f].nicename)
                listed == SelectSeq(catPostsData,
                              LAMBDA p : \E k \in 1..Len(p.categories) :
                                            p.categories[k] \in under)
            IN  [k \in 1..Len(listed) |-> listed[k].slug]

\* C12 witness: a post tagged only with the name of a child is listed under the
\* child and under its differently named parent.
ChildPostUnderParent ==
    /\ cpc = "done"
    /\ \E f, g \in DOMAIN categoryDir :
          /\ f # g
          /\ categoryDir[f].name # categoryDir[g].name
          /\ ParentOf(wpCategories, categoryDir[g].nicename) = categoryDir[f].nicename
          /\ \E i \in 1..Len(catPostsData) :
                /\ catPostsData[i].categories = <<categoryDir[g].name>>
                /\ \E k \in 1..Len(categoryDir[f].posts) :
                      categoryDir[f].posts[k] = catPostsData[i].slug
                /\ \E k \in 1..Len(categoryDir[g].posts) :
                      categoryDir[g].posts[k] = catPostsData[i].slug

\* C13: a node whose parent id names no node of the input is a root: it is in
\* the category list with the path identifier of its own name and has its own
\* listing.
DanglingParentIsRoot ==
    cpc = "done" =>
        \A i \in 1..Len(wpCategories) :
            (wpCategories[i].parent = MissingParent /\ wpCategories[i].name # Uncategorized)
                => /\ \E k \in 1..Len(allCategoriesWithSlug) :
                         /\ allCategoriesWithSlug[k].nicename = wpCategories[i].nicename
                         /\ allCategoriesWithSlug[k].slug = categorySlug(wpCategories[i].name)
                   /\ categorySlug(wpCategories[i].name) \in DOMAIN categoryDir

\* C24: the node that carries the name of the profile entry has no listing of
\* its own: no category/<slug>.html is written for it.
ProfileHasNoListing ==
    \A f \in DOMAIN categoryDir : categoryDir[f].name # Profile

\* C25: for every flat category list, also one whose parent pointers form a
\* cycle or name the node itself, the traversals of the tree return.
TraversalTerminates == cpc # "overflow"

(***************************************************************************)
(* The resolver of historical links: scripts/rewrite-wp-links.js.          *)
(* Further units of its strings: "wave" U+FF5E, "wdash" U+301C, "comma"    *)
(* U+3001, "fw2" the full-width digit U+FF12, "fwq" the full-width         *)
(* question mark U+FF1F, "c1" the circled digit U+2460, "?" and "!", "x"   *)
(* a letter, "%20" a well-formed escape of a space and "%" a malformed     *)
(* escape.                                                                 *)
(***************************************************************************)
MaxStatic == 2     \* files of posts/

IsDigit(c) == c \in Digits

AllDigits(s) == \A i \in 1..Len(s) : IsDigit(s[i])

\* s.startsWith(t)
StartsWith(s, t) == Len(t) <= Len(s) /\ SubSeq(s, 1, Len(t)) = t

\* s.includes(t)
Includes(s, t) ==
    Len(t) <= Len(s) /\ \E i \in 0..(Len(s) - Len(t)) : SubSeq(s, i + 1, i + Len(t)) = t

\* decodeURIComponent on a string without a malformed escape
DecodeURIComponent(s) == [i \in 1..Len(s) |-> IF s[i] = "%20" THEN " " ELSE s[i]]

\* .replace(/U+FF5E/g, '-')
WaveToHyphen(s) == [i \in 1..Len(s) |-> IF s[i] = "wave" THEN "-" ELSE s[i]]

\* wpPath.split('/'): the segments of a path, empty ones included.  The
\* paths main() collects with WP_HREF_REGEX begin with four digits and two
\* digits; the other pairs are arguments postSlugFromWpPath itself rejects
\* or accepts.
YearMonths ==
    { << <<"2", "0", "1", "2">>, <<"0", "6">> >>,
      << <<"a", "a", "a", "a">>, <<"0", "6">> >>,
      << <<"2", "0", "1", "2">>, <<"a", "a">> >>,
      << <<"2", "0", "1">>, <<"0", "6">> >>,
      << <<"2", "0", "1", "2">>, <<"6">> >> }

LongSlug == <<"a", "a", "a", "a", "a", "a", "a", "a">>

RestSegments ==
    { <<>>, <<"1", "7">>, <<"kana">>, <<"2", "0", "1", "2">>, <<"kana", "2", "-", "a">>,
      <<"kana", "?", "-", "a">>, <<"kana", "fw2">>, LongSlug, <<"a", "%20", "a">>,
      <<"wave", "%">> }

\* a path has a year, a month and nothing, a slug, or a day (or slug) and a slug
WpPaths ==
    {ym : ym \in YearMonths}
        \cup {ym \o <<s>> : ym \in YearMonths, s \in RestSegments}
        \cup {ym \o <<s, t>> : ym \in YearMonths, s \in RestSegments, t \in RestSegments}

\* the names of the files of posts/, without '.html'
StaticNames ==
    { <<"kana">>, <<"kana", "-", "2">>, <<"kana", "-", "a">>, <<"kana", "2">>, <<"x">>,
      <<"b">> \o LongSlug, <<"1", "7">>, <<"x", "kana">> }

\* getStaticSlugs(): a Set, iterated in the order of fs.readdirSync
StaticSlugSets ==
    {ss \in SeqsUpTo(StaticNames, MaxStatic) :
        \A i, j \in 1..Len(ss) : i # j => ss[i] # ss[j]}

postSlugFromWpPathNoDay(path) ==
    LET segments == SelectSeq(path, LAMBDA g : g # <<>>)
    IN  IF Len(segments) < 3 THEN Null
        ELSE IF Len(segments[1]) # 4 \/ Len(segments[2]) # 2 THEN Null
        ELSE LET raw == segments[3]
             IN  IF DecodeThrows(raw) THEN Trim(WaveToHyphen(raw))
                 ELSE Trim(SpacesToHyphen(WaveToHyphen(DecodeURIComponent(raw))))

postSlugFromWpPath(path) ==
    LET segments == SelectSeq(path, LAMBDA g : g # <<>>)
    IN  IF Len(segments) < 3 THEN Null
        ELSE IF Len(segments[1]) # 4 \/ Len(segments[2]) # 2 THEN Null
        ELSE LET second == segments[3]
                 postSegmentIndex == IF Len(second) = 2 /\ AllDigits(second) THEN 3 ELSE 2
             IN  IF postSegmentIndex + 1 > Len(segments) THEN Null
                 ELSE LET raw == segments[postSegmentIndex + 1]
                      IN  IF DecodeThrows(raw) THEN Trim(WaveToHyphen(raw))
                          ELSE Trim(SpacesToHyphen(WaveToHyphen(DecodeURIComponent(raw))))

\* the character replacements of normalizeForMatch
NormalizeUnit(c) ==
    IF c \in {"wave", "wdash", "comma"} THEN "-"
    ELSE IF c = "fw2" THEN "2"
    ELSE IF c = "fwq" THEN "?"
    ELSE IF c = "c1" THEN "1"
    ELSE c

normalizeForMatch(s) ==
    Trim(CollapseHyphens(SpacesToHyphen([i \in 1..Len(s) |-> NormalizeUnit(s[i])])))

\* .replace(/\d+/g, '')
StripDigits(s) == SelectSeq(s, LAMBDA c : ~IsDigit(c))

\* .replace(/\?+/g, '').replace(/!+/g, '').replace(/-+/g, '-')
StripMarks(s) == CollapseHyphens(SelectSeq(s, LAMBDA c : c \notin {"?", "!"}))

\* sn === n || sn.startsWith(n) || n.startsWith(sn)
EqualOrPrefix(sn, n) == sn = n \/ StartsWith(sn, n) \/ StartsWith(n, sn)

\* the first slug of the iteration that is in the set, found by strategy k
FirstOf(slugs, matching, k) ==
    LET at == {i \in 1..Len(slugs) : slugs[i] \in matching}
    IN  IF at = {} THEN [slug |-> Null, strategy |-> 0]
        ELSE [slug |-> slugs[CHOOSE i \in at : \A j \in at : i <= j], strategy |-> k]

\* the first of the results that found a slug
RECURSIVE FirstFound(_)
FirstFound(rs) ==
    IF rs = <<>> THEN [slug |-> Null, strategy |-> 0]
    ELSE IF Head(rs).slug # Null THEN Head(rs)
    ELSE FirstFound(Tail(rs))

SlugSet(slugs) == {slugs[i] : i \in 1..Len(slugs)}

\* wpSlug.length >= 8 asked of no candidate
MinLengthAny(w) == TRUE

\* wpSlug.length >= 8, the condition of the loop of the substring match
MinLengthOk(w) == Len(w) >= 8

\* the loops of findStaticSlug after the exact match and the normalised match
LooseMatch(w, slugs) ==
    LET n == normalizeForMatch(w)
        all == SlugSet(slugs)
        nNoDigits == StripDigits(n)
        nClean == StripMarks(nNoDigits)
    IN  FirstFound(<<
            FirstOf(slugs, {g \in all : StartsWith(normalizeForMatch(g), n)
                                           \/ StartsWith(n, normalizeForMatch(g))}, 3),
            IF MinLengthOk(w)
            THEN FirstOf(slugs, {g \in all : \/ Includes(g, w) \/ Includes(w, g)
                                             \/ Includes(normalizeForMatch(g), n)
                                             \/ Includes(n, normalizeForMatch(g))}, 4)
            ELSE [slug |-> Null, strategy |-> 0],
            FirstOf(slugs, {g \in all :
                               EqualOrPrefix(StripDigits(normalizeForMatch(g)), nNoDigits)}, 5),
            FirstOf(slugs, {g \in all :
                               EqualOrPrefix(StripMarks(StripDigits(normalizeForMatch(g))),
                                             nClean)}, 6) >>)

findStaticSlugLooseFirst(w, slugs) ==
    IF w = Null \/ w = <<>> THEN [slug |-> Null, strategy |-> 0]
    ELSE LooseMatch(w, slugs)

\* the loop of the prefix match and those after it run before the normalised match
findStaticSlugPrefixFirst(w, slugs) ==
    IF w = Null \/ w = <<>> THEN [slug |-> Null, strategy |-> 0]
    ELSE IF w \in SlugSet(slugs) THEN [slug |-> w, strategy |-> 1]
    ELSE FirstFound(<<
            LooseMatch(w, slugs),
            FirstOf(slugs, {g \in SlugSet(slugs) :
                               normalizeForMatch(g) = normalizeForMatch(w)}, 2) >>)

\* the slug findStaticSlug returns, with the number of the strategy that found it
findStaticSlug(w, slugs) ==
    IF w = Null \/ w = <<>> THEN [slug |-> Null, strategy |-> 0]
    ELSE IF w \in SlugSet(slugs) THEN [slug |-> w, strategy |-> 1]
    ELSE FirstFound(<<
            FirstOf(slugs, {g \in SlugSet(slugs) :
                               normalizeForMatch(g) = normalizeForMatch(w)}, 2),
            LooseMatch(w, slugs) >>)

\* an href that holds the historical URL with the path wpPath
WpHref(path) == [kind |-> "wp", path |-> path, dir |-> "", slug |-> <<>>]

\* linkToPost(relDir, path.basename(target)): '<slug>.html' from a file of posts/,
\* '../posts/<slug>.html' from a file of page/ or category/
PostHref(relDir, slug) ==
    [kind |-> "post", path |-> <<>>, dir |-> IF relDir = "posts" THEN "" ELSE "../posts/",
     slug |-> slug]

\* the directories getAllHtmlFiles reads
RelDirs == {"posts", "page", "category"}

\* urlToRelative.get(fullUrl), or Null
TargetOf(map, path) ==
    IF \E i \in 1..Len(map) : map[i].url = path
    THEN (CHOOSE e \in {map[i] : i \in 1..Len(map)} : e.url = path).slug
    ELSE Null

\* every matched href is replaced, by x.html when there is no target
rewriteHrefAlways(href, map, relDir) ==
    IF href.kind # "wp" THEN href
    ELSE LET target == TargetOf(map, href.path)
         IN  PostHref(relDir, IF target # Null THEN target ELSE <<"x">>)

\* the replacement function of rewriteAllHtml on one matched href
rewriteHref(href, map, relDir) ==
    IF href.kind # "wp" THEN href
    ELSE LET target == TargetOf(map, href.path)
         IN  IF target # Null THEN PostHref(relDir, target) ELSE href

\* the lines writeRedirectMap adds after its header, one per entry
RedirectLines(map) == [i \in 1..Len(map) |-> [oldPath |-> map[i].url, newPath |-> map[i].slug]]

InitLinks ==
    /\ wpPath \in WpPaths
    /\ staticSlugs \in StaticSlugSets
    /\ wpSlug = Null
    /\ found = Null
    /\ strategy = 0
    /\ lpc = "start"
    /\ urlToRelative = <<>>
    /\ hrefOut = WpHref(wpPath)
    /\ redirectMap = <<>>
    /\ SlugIdle
    /\ BuildIdle
    /\ PagesIdle
    /\ CatsIdle
    /\ WriterIdle

\* buildUrlToRelative, first statement of the loop body
ExtractSlug ==
    /\ lpc = "start"
    /\ wpSlug' = postSlugFromWpPath(wpPath)
    /\ lpc' = "extracted"
    /\ UNCHANGED <<wpPath, staticSlugs, found, strategy, urlToRelative, hrefOut, redirectMap>>
    /\ UNCHANGED slugVars
    /\ UNCHANGED buildVars
    /\ UNCHANGED pageVars
    /\ UNCHANGED catVars
    /\ UNCHANGED writerVars

\* buildUrlToRelative, the rest of the loop body: a found slug makes an entry
ResolveSlug ==
    /\ lpc = "extracted"
    /\ LET r == findStaticSlug(wpSlug, staticSlugs)
       IN  /\ found' = r.slug
           /\ strategy' = r.strategy
           /\ urlToRelative' = IF r.slug # Null THEN <<[url |-> wpPath, slug |-> r.slug]>>
                                ELSE <<>>
    /\ lpc' = "done"
    /\ UNCHANGED <<wpPath, staticSlugs, wpSlug, hrefOut, redirectMap>>
    /\ UNCHANGED slugVars
    /\ UNCHANGED buildVars
    /\ UNCHANGED pageVars
    /\ UNCHANGED catVars
    /\ UNCHANGED writerVars

\* main() after buildUrlToRelative: with --dry-run nothing is written; otherwise
\* the href is rewritten in its file and the redirect map is written when the
\* mapping has an entry
RewriteAndRedirect ==
    /\ lpc = "done"
    /\ \E dryRun \in BOOLEAN, relDir \in RelDirs :
          IF dryRun
          THEN /\ lpc' = "dry"
               /\ UNCHANGED <<hrefOut, redirectMap>>
          ELSE /\ lpc' = "rewritten"
               /\ hrefOut' = rewriteHref(hrefOut, urlToRelative, relDir)
               /\ redirectMap' = IF Len(urlToRelative) > 0 THEN RedirectLines(urlToRelative)
                                  ELSE redirectMap
    /\ UNCHANGED <<wpPath, staticSlugs, wpSlug, found, strategy, urlToRelative>>
    /\ UNCHANGED slugVars
    /\ UNCHANGED buildVars
    /\ UNCHANGED pageVars
    /\ UNCHANGED catVars
    /\ UNCHANGED writerVars

NextLinks ==
    \/ ExtractSlug
    \/ ResolveSlug
    \/ RewriteAndRedirect

SpecLinks == InitLinks /\ [][NextLinks]_vars

(***************************************************************************)
(* Properties of the resolver.                                             *)
(***************************************************************************)
\* C14: when the candidate slug extracted from the path is one of the static
\* slugs, the resolver returns that very slug, whatever else would match and
\* whatever the iteration order.
ExactMatchFirst ==
    (lpc = "done" /\ wpSlug # Null /\ wpSlug \in SlugSet(staticSlugs)) => found = wpSlug

\* C14 witness: the candidate is a static slug, and a slug iterated before it
\* matches it by prefix.
ExactBeatsEarlierPrefix ==
    /\ lpc = "done"
    /\ Len(staticSlugs) = 2
    /\ wpSlug = staticSlugs[2]
    /\ StartsWith(normalizeForMatch(staticSlugs[1]), normalizeForMatch(wpSlug))
    /\ found = wpSlug

\* the path 2012/06/17/<kana> against the one static slug <kana>-2
DaySegmentScenario ==
    /\ wpPath = << <<"2", "0", "1", "2">>, <<"0", "6">>, <<"1", "7">>, <<"kana">> >>
    /\ staticSlugs = << <<"kana", "-", "2">> >>

\* C15: in the day-segment scenario the path resolves to <kana>-2, and the
\* strategy that finds it is the digit-insensitive match (strategy 5).
DaySegmentByDigitInsensitive ==
    (lpc = "done" /\ DaySegmentScenario)
        => (found = <<"kana", "-", "2">> /\ strategy = 5)

\* C15 as the code has it: in the day-segment scenario the path resolves to
\* <kana>-2 by the prefix match on the normalised forms (strategy 3).
DaySegmentByPrefix ==
    (lpc = "done" /\ DaySegmentScenario)
        => (wpSlug = <<"kana">> /\ found = <<"kana", "-", "2">> /\ strategy = 3)

\* C15 witness: the scenario has been resolved.
DaySegmentResolved == lpc = "done" /\ DaySegmentScenario /\ found # Null

Units(s) == {s[i] : i \in 1..Len(s)}

\* C16: a candidate that has no character in common with any static slug is
\* left unresolved.
NoFalseMatch ==
    (/\ lpc = "done"
     /\ wpSlug # Null
     /\ \A g \in SlugSet(staticSlugs) : Units(g) \cap Units(wpSlug) = {})
        => found = Null

WellFormedYear(g) == Len(g) = 4 /\ AllDigits(g)

WellFormedMonth(g) == Len(g) = 2 /\ AllDigits(g)

\* the candidate segment of a path as the claim describes it
CandidateSegment(path) ==
    LET segments == SelectSeq(path, LAMBDA g : g # <<>>)
    IN  IF Len(segments) < 2 THEN Null
        ELSE IF ~WellFormedYear(segments[1]) \/ ~WellFormedMonth(segments[2]) THEN Null
        ELSE IF Len(segments) < 3 THEN Null
        ELSE IF Len(segments[3]) = 2 /\ AllDigits(segments[3])
             THEN (IF Len(segments) < 4 THEN Null ELSE segments[4])
             ELSE segments[3]

ContainsEitherWay(w, g) ==
    \/ Includes(g, w)
    \/ Includes(w, g)
    \/ Includes(normalizeForMatch(g), normalizeForMatch(w))
    \/ Includes(normalizeForMatch(w), normalizeForMatch(g))

\* the static slug g matches the candidate w under strategy k
MatchesBy(k, w, g) ==
    CASE k = 1 -> g = w
      [] k = 2 -> normalizeForMatch(g) = normalizeForMatch(w)
      [] k = 3 -> \/ StartsWith(normalizeForMatch(g), normalizeForMatch(w))
                  \/ StartsWith(normalizeForMatch(w), normalizeForMatch(g))
      [] k = 4 -> Len(w) >= 8 /\ ContainsEitherWay(w, g)
      [] k = 5 -> EqualOrPrefix(StripDigits(normalizeForMatch(g)),
                                StripDigits(normalizeForMatch(w)))
      [] k = 6 -> EqualOrPrefix(StripMarks(StripDigits(normalizeForMatch(g))),
                                StripMarks(StripDigits(normalizeForMatch(w))))
      [] OTHER -> FALSE

\* the resolver has answered for the path
Resolved == lpc \in {"done", "dry", "rewritten"}

\* C26: the resolver returns a slug found by strategy k only if the slug matches
\* under strategy k and no static slug matches under a strategy before k,
\* whatever the iteration order of the static slugs.
CascadePrecedence ==
    (Resolved /\ found # Null) =>
        /\ MatchesBy(strategy, wpSlug, found)
        /\ \A j \in 1..(strategy - 1) : \A g \in SlugSet(staticSlugs) :
              ~MatchesBy(j, wpSlug, g)

\* C26 witness: slug A is equal to the candidate after normalisation, slug B,
\* iterated before A, matches by prefix only, and the resolver has returned A.
NormalizedBeatsEarlierPrefix ==
    /\ Resolved
    /\ Len(staticSlugs) = 2
    /\ strategy = 2
    /\ found = staticSlugs[2]
    /\ MatchesBy(3, wpSlug, staticSlugs[1])
    /\ ~MatchesBy(2, wpSlug, staticSlugs[1])
    /\ ~MatchesBy(1, wpSlug, staticSlugs[1])

\* C27: for a candidate of fewer than 8 units the substring strategy finds
\* nothing: a returned slug matches under one of the other strategies, so a slug
\* that only contains the candidate (or is contained in it) away from the start
\* is not returned.
MinLengthGuard ==
    (Resolved /\ wpSlug # Null /\ Len(wpSlug) < 8) =>
        /\ strategy # 4
        /\ found # Null => \E j \in {1, 2, 3, 5, 6} : MatchesBy(j, wpSlug, found)

\* C27 witness: the one-unit candidate <kana> is contained in the only static
\* slug x<kana> after its start, and the resolver has returned nothing.
ShortCandidateContainedUnresolved ==
    /\ Resolved
    /\ wpSlug = <<"kana">>
    /\ staticSlugs = << <<"x", "kana">> >>
    /\ ContainsEitherWay(wpSlug, staticSlugs[1])
    /\ ~StartsWith(staticSlugs[1], wpSlug)
    /\ found = Null

\* C28: a URL whose path resolves to no static slug has no entry in the
\* URL-to-location mapping and no line in the redirect map, and its href is
\* left as it was; an href that was replaced points to the resolved slug.
UnresolvedLeftAlone ==
    Resolved =>
        /\ found = Null =>
              /\ TargetOf(urlToRelative, wpPath) = Null
              /\ \A i \in 1..Len(redirectMap) : redirectMap[i].oldPath # wpPath
              /\ hrefOut = WpHref(wpPath)
        /\ hrefOut # WpHref(wpPath) =>
              /\ found # Null
              /\ hrefOut.kind = "post"
              /\ hrefOut.slug = found

\* C28 witness: a run that writes has finished for a path with a candidate slug
\* that no slug of a non-empty posts/ matches, and the href still holds the URL.
UnresolvedHrefKept ==
    /\ lpc = "rewritten"
    /\ wpSlug # Null
    /\ staticSlugs # <<>>
    /\ found = Null
    /\ hrefOut = WpHref(wpPath)
    /\ redirectMap = <<>>

(***************************************************************************)
(* Properties of the build as a whole run.                                 *)
(***************************************************************************)
\* C18: the list the build writes never holds a record whose identifier is the
\* empty string; a document with neither an identifier nor a title is skipped.
NoEmptyIdentifier ==
    lastRun = "build" => \A i \in 1..Len(postsJson) : postsJson[i].slug # <<>>

WithoutDateRel(ps) == [i \in 1..Len(ps) |-> [ps[i] EXCEPT !.dateRel = ""]]

\* C20: a second build on the same documents writes the list it read, the
\* same records in the same order, dateRel aside.
RerunStable ==
    (builds >= 2 /\ lastRun = "build")
        => WithoutDateRel(postsJson) = WithoutDateRel(readJson)

\* the place of a slug in the insertion order of bySlug: the records the build
\* read in their order, then the documents new to the list in the order of the
\* files
InsertionPlace(slug) ==
    LET at == {i \in 1..Len(readJson) : readJson[i].slug = slug}
    IN  IF at # {} THEN CHOOSE i \in at : \A j \in at : i <= j
        ELSE Len(readJson) + (CHOOSE k \in 1..Len(FileOrder) : FileOrder[k] = slug)

\* C29: two records of the written list with the same date stand in their
\* insertion order: persisted records in persisted order, then new documents in
\* processing order, a replaced record at the place of the one it replaces.
StableTieBreak ==
    lastRun = "build" =>
        \A i, j \in 1..Len(postsJson) :
            (/\ i < j
             /\ DateValid(postsJson[i].date)
             /\ DateValid(postsJson[j].date)
             /\ DateTime(postsJson[i].date) = DateTime(postsJson[j].date))
                => InsertionPlace(postsJson[i].slug) < InsertionPlace(postsJson[j].slug)

(***************************************************************************)
(* The writer server: writer-server.js, the handlers of /api/posts.        *)
(* A handler runs to its response without interleaving (spawnSync); trail  *)
(* lists what it did, in order, and notes that a build was run after it.   *)
(* The result of the push changes nothing but a warning in the response.   *)
(***************************************************************************)
\* the bodies of a draft or publish request: a title and a date, or a slug and
\* a title
RequestBodies ==
    {[slug |-> <<>>, title |-> SlugA, date |-> Ymd(1)],
     [slug |-> SlugC, title |-> NewTitle, date |-> NoDate]}

\* the days new Date() can return when a date is defaulted; not read otherwise
TodayFor(date) == IF date = NoDate THEN Days ELSE {1}

\* the path suffixes of a DELETE request, decoded
DeleteSuffixes == {SlugA, SlugC, <<"a", "!">>}

\* the slugs a revert request can name
RevertSlugs == {SlugA, SlugC}

\* slugify(data.slug || data.title) || 'post'
RequestSlug(data) == OrElse(slugify(OrElse(data.slug, data.title)), FallbackSlug)

\* the front matter buildMarkdownContent writes: the date defaults to today
buildMarkdownContent(title, date, draft, now) ==
    [title |-> title,
     date |-> IF date = NoDate THEN Ymd(now) ELSE date,
     draft |-> draft,
     excerpt |-> <<>>,
     categories |-> <<>>]

\* fs.writeFileSync(path.join(dir, slug + '.md'), ...)
Put(dir, slug, meta) ==
    [f \in DOMAIN dir \cup {slug} |-> IF f = slug THEN meta ELSE dir[f]]

\* fs.unlinkSync(path.join(dir, slug + '.md'))
Drop(dir, slug) == [f \in DOMAIN dir \ {slug} |-> dir[f]]

\* the draft is written under content/
saveDraftFilesToContent(dr, ct, slug, meta) == [drafts |-> dr, content |-> Put(ct, slug, meta)]

\* the files after the draft handler: only drafts/<slug>.md is written
saveDraftFiles(dr, ct, slug, meta) == [drafts |-> Put(dr, slug, meta), content |-> ct]

\* runBuild().ok: the build script exits with status 0
BuildOk(k, ps) == ReadCatalog(k, ps).ok

BuildStep(ok) == IF ok THEN "build ok" ELSE "build failed"

\* the push is run whatever the build returned
publishStepsPushAlways(hadDraft, buildOk) ==
    (IF hadDraft THEN <<"unlink draft">> ELSE <<>>)
        \o <<"write content", BuildStep(buildOk), "push",
             IF buildOk THEN "respond published" ELSE "respond error">>

\* the steps of the publish handler, in the order of its statements
publishSteps(hadDraft, buildOk) ==
    (IF hadDraft THEN <<"unlink draft">> ELSE <<>>)
        \o <<"write content", BuildStep(buildOk)>>
        \o (IF buildOk THEN <<"push", "respond published">> ELSE <<"respond error">>)

\* the record is left in the list
removeRecordKeep(ps, slug) == ps

\* list.filter((p) => p && p.slug !== fileSlug)
removeRecord(ps, slug) == SelectSeq(ps, LAMBDA p : p.slug # slug)

\* [normalizedSuffix, slugify(suffix)].filter(Boolean)
SlugCandidates(suffix) == {Trim(suffix), slugify(suffix)} \ {<<>>}

\* the first file of the directory, in the order of readdirSync, whose slug is a
\* candidate; Null when there is none
FirstMatch(dir, candidates) ==
    LET files == SelectSeq(FilesOf(dir), LAMBDA f : f \in candidates)
    IN  IF files = <<>> THEN Null ELSE Head(files)

\* the records of data/posts.json when the server starts: one day, dates that parse
WriterRecords == {r \in PersistedRecords : r.date = Ymd(1)}

InitWriter ==
    /\ jsonKind \in {"list", "unparseable"}
    /\ postsJson \in IF jsonKind = "list" THEN SeqsUpTo(WriterRecords, 1) ELSE {<<>>}
    /\ content \in {d \in Dirs : DOMAIN d \subseteq {SlugC}}
    /\ lastRun = "none"
    /\ readJson = <<>>
    /\ builds = 0
    /\ written = {}
    /\ WriterIdle
    /\ SlugIdle
    /\ PagesIdle
    /\ CatsIdle
    /\ LinksIdle

\* POST /api/posts/draft
DraftSave ==
    /\ requests < MaxRequests
    /\ requests' = requests + 1
    /\ \E data \in RequestBodies : \E now \in TodayFor(data.date) :
          LET slug == RequestSlug(data)
              meta == buildMarkdownContent(data.title, data.date, "true", now)
              files == saveDraftFiles(drafts, content, slug, meta)
          IN  /\ drafts' = files.drafts
              /\ content' = files.content
              /\ trail' = <<"write draft">>
              /\ response' = [status |-> 200, kind |-> "saved", slug |-> slug]
    /\ UNCHANGED <<postsJson, lastRun, readJson, builds, jsonKind, written>>
    /\ UNCHANGED slugVars
    /\ UNCHANGED pageVars
    /\ UNCHANGED catVars
    /\ UNCHANGED linkVars

\* POST /api/posts/publish
Publish ==
    /\ requests < MaxRequests
    /\ requests' = requests + 1
    /\ \E data \in RequestBodies : \E now \in TodayFor(data.date) :
          LET slug == RequestSlug(data)
              meta == buildMarkdownContent(data.title, data.date, "false", now)
              dir == Put(content, slug, meta)
              buildOk == BuildOk(jsonKind, postsJson)
          IN  /\ drafts' = Drop(drafts, slug)
              /\ content' = dir
              /\ RunBuild(postsJson, jsonKind, dir, written)
              /\ trail' = publishSteps(slug \in DOMAIN drafts, buildOk)
              /\ response' = IF buildOk
                             THEN [status |-> 200, kind |-> "published", slug |-> slug]
                             ELSE [status |-> 500, kind |-> "error", slug |-> slug]
    /\ UNCHANGED builds
    /\ UNCHANGED slugVars
    /\ UNCHANGED pageVars
    /\ UNCHANGED catVars
    /\ UNCHANGED linkVars

\* POST /api/posts/<slug>/revert-to-draft
RevertToDraft ==
    /\ requests < MaxRequests
    /\ requests' = requests + 1
    /\ \E slug \in RevertSlugs :
          IF slug \notin DOMAIN content
          THEN /\ response' = [status |-> 404, kind |-> "error", slug |-> slug]
               /\ trail' = <<>>
               /\ UNCHANGED <<drafts, content, postsJson, lastRun, readJson, jsonKind, written>>
          ELSE LET meta == content[slug]
                   dir == Drop(content, slug)
               IN  /\ \E now \in TodayFor(meta.date) :
                         drafts' = Put(drafts, slug,
                                       buildMarkdownContent(OrElse(meta.title, slug),
                                                            meta.date, "true", now))
                   /\ content' = dir
                   /\ RunBuild(postsJson, jsonKind, dir, written)
                   /\ trail' = <<"write draft", "unlink content",
                                 BuildStep(BuildOk(jsonKind, postsJson))>>
                   /\ response' = [status |-> 200, kind |-> "reverted", slug |-> slug]
    /\ UNCHANGED builds
    /\ UNCHANGED slugVars
    /\ UNCHANGED pageVars
    /\ UNCHANGED catVars
    /\ UNCHANGED linkVars

\* DELETE /api/posts/<slug>: drafts/ is searched before content/
DeletePost ==
    /\ requests < MaxRequests
    /\ requests' = requests + 1
    /\ \E suffix \in DeleteSuffixes :
          LET uniq == SlugCandidates(suffix)
              inDrafts == FirstMatch(drafts, uniq)
              inContent == FirstMatch(content, uniq)
          IN  IF inDrafts # Null
              THEN /\ drafts' = Drop(drafts, inDrafts)
                   /\ trail' = <<"unlink draft">>
                   /\ response' = [status |-> 200, kind |-> "deleted", slug |-> inDrafts]
                   /\ UNCHANGED <<content, postsJson, lastRun, readJson, jsonKind, written>>
              ELSE IF inContent # Null
              THEN LET dir == Drop(content, inContent)
                       ps == IF jsonKind = "list" THEN removeRecord(postsJson, inContent)
                             ELSE postsJson
                       html == <<"posts", inContent>>
                   IN  /\ content' = dir
                       /\ RunBuild(ps, jsonKind, dir, written \ {html})
                       /\ trail' = <<"unlink content">>
                                       \o (IF jsonKind = "list" THEN <<"write catalog">>
                                           ELSE <<>>)
                                       \o (IF html \in written THEN <<"unlink html">>
                                           ELSE <<>>)
                                       \o <<BuildStep(BuildOk(jsonKind, ps)), "push">>
                       /\ response' = [status |-> 200, kind |-> "deleted", slug |-> inContent]
                       /\ UNCHANGED drafts
              ELSE /\ response' = [status |-> 404, kind |-> "error", slug |-> suffix]
                   /\ trail' = <<>>
                   /\ UNCHANGED <<drafts, content, postsJson, lastRun, readJson, jsonKind,
                                  written>>
    /\ UNCHANGED builds
    /\ UNCHANGED slugVars
    /\ UNCHANGED pageVars
    /\ UNCHANGED catVars
    /\ UNCHANGED linkVars

NextWriter ==
    \/ DraftSave
    \/ Publish
    \/ RevertToDraft
    \/ DeletePost
    \/ Build

SpecWriter == InitWriter /\ [][NextWriter]_vars

(***************************************************************************)
(* Properties of the writer server.                                        *)
(***************************************************************************)
\* the position of a step in the trail, 0 when it is not there
StepAt(step) ==
    IF \E i \in 1..Len(trail) : trail[i] = step
    THEN CHOOSE i \in 1..Len(trail) : trail[i] = step
    ELSE 0

\* a slug that exists under drafts/ and not under content/
OnlyDraft(dr, ct) == DOMAIN dr \ DOMAIN ct

\* C21, amended: a draft save writes drafts/<slug>.md and leaves content/,
\* data/posts.json and the output files as they are, and no step, a build
\* included, puts a record into the list for a slug that exists only under
\* drafts/.
DraftSaveDoesNotPublish ==
    [][/\ (requests' # requests /\ response'.kind = "saved") =>
              /\ content' = content
              /\ postsJson' = postsJson
              /\ jsonKind' = jsonKind
              /\ written' = written
              /\ response'.slug \in DOMAIN drafts'
              /\ IsDraft(drafts'[response'.slug])
       /\ \A s \in OnlyDraft(drafts', content') :
              s \notin SlugsOf(postsJson) => s \notin SlugsOf(postsJson')]_vars

\* C21 as stated: a slug that exists only under drafts/ has no record in the
\* list, whatever the list held before the draft was saved.
OnlyDraftNeverListed ==
    \A s \in OnlyDraft(drafts, content) : s \notin SlugsOf(postsJson)

\* C21 witness: a draft was saved for a slug that has no file under content/, a
\* build has run after it and has written a list, and the slug is not in it.
DraftSavedThenBuilt ==
    /\ response.kind = "saved"
    /\ response.slug \in OnlyDraft(drafts, content)
    /\ Len(trail) >= 2
    /\ trail[Len(trail)] = "build run"
    /\ lastRun = "build"
    /\ postsJson # <<>>
    /\ response.slug \notin SlugsOf(postsJson)

\* C22: the publish handler writes content/<slug>.md (after removing the draft,
\* if any), then runs the build, then pushes; it pushes only after a build that
\* succeeded, and it answers published = true only after a build that succeeded.
PublishSequence ==
    StepAt("write content") > 0 =>
        /\ StepAt("unlink draft") < StepAt("write content")
        /\ StepAt("build ok") > 0 \/ StepAt("build failed") > 0
        /\ \A b \in {"build ok", "build failed"} :
              StepAt(b) > 0 => StepAt("write content") < StepAt(b)
        /\ StepAt("push") > 0 =>
              (StepAt("build ok") > 0 /\ StepAt("build ok") < StepAt("push"))
        /\ response.kind = "published" <=> StepAt("respond published") > 0
        /\ StepAt("respond published") > 0 =>
              /\ StepAt("build ok") > 0
              /\ StepAt("build ok") < StepAt("respond published")
              /\ StepAt("push") > 0
              /\ StepAt("push") < StepAt("respond published")
              /\ response.slug \in DOMAIN content
              /\ response.slug \notin DOMAIN drafts
              /\ response.slug \in SlugsOf(postsJson)

\* C22 witness: a publish request for a slug that had a draft has removed the
\* draft, written the document, run a build that succeeded, pushed and answered
\* published = true.
PublishedAfterBuildAndPush ==
    /\ trail = <<"unlink draft", "write content", "build ok", "push", "respond published">>
    /\ response.kind = "published"
    /\ response.slug \in DOMAIN content
    /\ lastRun = "build"

\* C23: after a revert-to-draft that was answered with reverted = true and whose
\* build succeeded, drafts/<slug>.md exists with draft: true, content/<slug>.md
\* does not exist and no record of the list has that slug.
RevertedIsUnpublished ==
    (response.kind = "reverted" /\ StepAt("build ok") > 0) =>
        /\ response.slug \in DOMAIN drafts
        /\ IsDraft(drafts[response.slug])
        /\ response.slug \notin DOMAIN content
        /\ response.slug \notin SlugsOf(postsJson)

\* C30: after a delete that was answered with deleted = true for a file of
\* content/, content/<slug>.md and posts/<slug>.html do not exist and no record
\* of the list has that slug, also after the build the delete runs and after
\* later builds.
DeletedStaysDeleted ==
    (response.kind = "deleted" /\ StepAt("unlink content") > 0) =>
        /\ response.slug \notin DOMAIN content
        /\ <<"posts", response.slug>> \notin written
        /\ response.slug \notin SlugsOf(postsJson)

\* C30 witness: a published post, with its page and its record, was deleted, the
\* build of the handler and a later build have run, and the list is not empty.
DeletedPublishedThenBuilt ==
    /\ response.kind = "deleted"
    /\ StepAt("unlink content") = 1
    /\ StepAt("write catalog") = 2
    /\ StepAt("unlink html") = 3
    /\ StepAt("build ok") = 4
    /\ trail[Len(trail)] = "build run"
    /\ lastRun = "build"
    /\ postsJson # <<>>

====
